---- MODULE Spec2Model ----
(***************************************************************************)
(* Model of single-sieve: the per-artist reconciliation loop of            *)
(* single-sieve.py (main), its duplicate-single suppressor and title       *)
(* normaliser, and the webhook ingestion queue with its single-flight      *)
(* worker of listener.py.                                                  *)
(*                                                                         *)
(* The specifications share the variables:                                 *)
(*   Spec          main() of single-sieve.py over a list of artists        *)
(*   SpecFair      Spec with the polling loop of wait_for_command running  *)
(*   SuppSpec      the singles-prune decision on bounded album/track sets  *)
(*   NormSpec      normalise on bounded titles and every rule set          *)
(*   ListenerSpec  listener.py (webhook handlers, ensure_worker, worker)   *)
(*   ListenerFairSpec  ListenerSpec with thread-scheduling fairness        *)
(***************************************************************************)
EXTENDS Integers, Sequences, FiniteSets, TLC

VARIABLES
    \* ---- single-sieve.py main() ----
    cfg,                 \* behaviour flags read at lines 188-197
    artists,             \* the artist list fetched at line 200
    shutdown_requested,  \* line 14
    sigint,              \* interrupts received so far (history)
    remoteArtist,        \* remote store: artist id -> [monitored, metadataProfileId]
    remoteAlbumMon,      \* remote store: artist id -> album id -> monitored
    cmdStatus,           \* remote status of the RefreshArtist command in flight
    idx,                 \* position of the for loop at line 262 (0 before the first artist)
    pc,                  \* position inside main()
    artist,              \* the in-memory artist dict (local variable `artist`)
    was_monitored,       \* line 265
    needs_profile_change,\* line 272
    raised,              \* an exception is propagating out of the try block
    singles,             \* line 329, album ids in listing order
    seen,                \* lines 337-350: [titles, recordings]
    sPos,                \* position of the loop at line 361
    suppressed,          \* line 357
    kept,                \* line 358
    calls,               \* artist id -> sequence of remote calls issued for it
    note,                \* artist id -> what happened to it (history)
    \* ---- singles prune on drawn inputs ----
    in_albums, in_tracks, in_rules, out_suppressed, out_kept, sphase,
    first_pass,          \* listing and result of the first of two passes (history)
    \* ---- listener.py ----
    queue,               \* line 9
    worker_running,      \* line 11
    hpc, hmbid,          \* webhook handler position / its mbid
    wpc, wmbid,          \* worker thread position / the mbid it claimed
    jobs,                \* mbid -> number of subprocess.run invocations (history)
    batches,             \* mbid -> number of enqueues that were the first since its last claim (history)
    events,              \* mbid -> number of enqueues, lines 64-69 (history)
    pendingEvents,       \* mbid -> number of enqueues since its last claim (history)
    total,               \* number of webhook calls received (history)
    \* ---- normalise on drawn inputs ----
    n_title, n_rules, n_out, nphase

sieveVars == <<cfg, artists, shutdown_requested, sigint, remoteArtist, remoteAlbumMon, cmdStatus, idx, pc, artist,
               was_monitored, needs_profile_change, raised, singles, seen,
               sPos, suppressed, kept, calls, note>>
suppVars == <<in_albums, in_tracks, in_rules, out_suppressed, out_kept, sphase, first_pass>>
listenerVars == <<queue, worker_running, hpc, hmbid, wpc, wmbid, jobs, batches, events,
                  pendingEvents, total>>
normVars == <<n_title, n_rules, n_out, nphase>>
vars == <<sieveVars, suppVars, listenerVars, normVars>>

(***************************************************************************)
(* Strings are sequences of one-character strings.                         *)
(***************************************************************************)
UpperChars == <<"A","B","C","D","E","F","G","H","I","J","K","L","M",
                "N","O","P","Q","R","S","T","U","V","W","X","Y","Z">>
LowerChars == <<"a","b","c","d","e","f","g","h","i","j","k","l","m",
                "n","o","p","q","r","s","t","u","v","w","x","y","z">>
DigitChars == {"0","1","2","3","4","5","6","7","8","9"}
SpaceChars == {" ", "\t", "\n"}

Range(f) == {f[i] : i \in DOMAIN f}

\* str.lower() on one character
LowerChar(c) ==
    IF \E i \in 1..26 : UpperChars[i] = c
    THEN LowerChars[CHOOSE i \in 1..26 : UpperChars[i] = c]
    ELSE c

\* s.lower(), line 93
Lower(s) == [i \in 1..Len(s) |-> LowerChar(s[i])]

\* s.replace("&", "and"), line 95
RECURSIVE ReplaceAmp(_)
ReplaceAmp(s) ==
    IF s = <<>> THEN <<>>
    ELSE IF Head(s) = "&" THEN <<"a","n","d">> \o ReplaceAmp(Tail(s))
    ELSE <<Head(s)>> \o ReplaceAmp(Tail(s))

\* smallest index >= from with s[index] = c, 0 when there is none
FirstAt(s, c, from) ==
    IF \E i \in from..Len(s) : s[i] = c
    THEN CHOOSE i \in from..Len(s) : s[i] = c /\ \A j \in from..(i-1) : s[j] # c
    ELSE 0

\* re.sub(open [^close]* close, "", s), lines 98 and 101: leftmost
\* non-overlapping matches, each from an opener to the next closer
RECURSIVE StripGroups(_, _, _)
StripGroups(s, open, close) ==
    LET i == FirstAt(s, open, 1) IN
    IF i = 0 THEN s
    ELSE LET j == FirstAt(s, close, i + 1) IN
         IF j = 0 THEN s
         ELSE SubSeq(s, 1, i - 1) \o StripGroups(SubSeq(s, j + 1, Len(s)), open, close)

\* re.sub(r"[^a-z0-9\s]", "", s), line 104
KeptByPunctuationRule(c) ==
    c \in Range(LowerChars) \/ c \in DigitChars \/ c \in SpaceChars

RemovePunctuation(s) == SelectSeq(s, KeptByPunctuationRule)

\* re.sub(r"\s+", " ", s), line 107
RECURSIVE CollapseWhitespace(_)
CollapseWhitespace(s) ==
    IF s = <<>> THEN <<>>
    ELSE IF Head(s) \in SpaceChars
         THEN IF Len(s) > 1 /\ s[2] \in SpaceChars
              THEN CollapseWhitespace(Tail(s))
              ELSE <<" ">> \o CollapseWhitespace(Tail(s))
         ELSE <<Head(s)>> \o CollapseWhitespace(Tail(s))

\* s.strip(), line 109
RECURSIVE LStrip(_)
LStrip(s) == IF s # <<>> /\ Head(s) \in SpaceChars THEN LStrip(Tail(s)) ELSE s

RECURSIVE RStrip(_)
RStrip(s) ==
    IF s # <<>> /\ s[Len(s)] \in SpaceChars THEN RStrip(SubSeq(s, 1, Len(s) - 1)) ELSE s

Strip(s) == RStrip(LStrip(s))

\* normalise(title, rules), lines 89-109; a missing title is <<>>
normalise(title, rules) ==
    LET s0 == title
        s1 == IF rules.lowercase THEN Lower(s0) ELSE s0
        s2 == ReplaceAmp(s1)
        s3 == IF rules.strip_parentheses THEN StripGroups(s2, "(", ")") ELSE s2
        s4 == IF rules.strip_brackets THEN StripGroups(s3, "[", "]") ELSE s3
        s5 == IF rules.remove_punctuation THEN RemovePunctuation(s4) ELSE s4
        s6 == IF rules.collapse_whitespace THEN CollapseWhitespace(s5) ELSE s5
    IN Strip(s6)

(***************************************************************************)
(* Singles prune, single-sieve.py lines 329-401.                           *)
(* An album is [id, albumType, monitored]; a track is                      *)
(* [albumId, title, recordingId]; a missing title is <<>> and a missing    *)
(* recording id is "none". Singles are identified by album id where the    *)
(* code lists their titles.                                                *)
(***************************************************************************)
IsSingle(a) == a.albumType = "Single"

\* line 329
SinglesOf(albums) == SelectSeq(albums, IsSingle)

\* variant: the albumType test of line 333 is missing, monitored singles count
MonitoredIds(albums) ==
    {a.id : a \in {b \in Range(albums) : b.monitored}}

\* lines 330-334
MonitoredNonSingleIds(albums) ==
    {a.id : a \in {b \in Range(albums) : b.albumType # "Single" /\ b.monitored}}

\* lines 340-346
SeenTitles(albums, tracks, rules) ==
    {normalise(t.title, rules) :
        t \in {u \in Range(tracks) :
                 u.albumId \in MonitoredNonSingleIds(albums) /\ u.title # <<>>}}

\* lines 340-341, 348-350
SeenRecordings(albums, tracks) ==
    {t.recordingId :
        t \in {u \in Range(tracks) :
                 u.albumId \in MonitoredNonSingleIds(albums) /\ u.recordingId # "none"}}

\* lines 337-350
SeenElsewhere(albums, tracks, rules) ==
    [titles |-> SeenTitles(albums, tracks, rules),
     recordings |-> SeenRecordings(albums, tracks)]

\* lines 353-355 and 365: tracks_by_album.get(s_id, [])
TracksOfAlbum(tracks, id) ==
    LET OnAlbum(t) == t.albumId = id IN SelectSeq(tracks, OnAlbum)

\* variant: `and` in place of `or` at line 387
TrackMatchesBoth(t, sn, rules) ==
    /\ normalise(t.title, rules) \in sn.titles
    /\ (t.recordingId # "none" /\ t.recordingId \in sn.recordings)

\* lines 381-387: title_match or recording_match
TrackMatches(t, sn, rules) ==
    \/ normalise(t.title, rules) \in sn.titles
    \/ (t.recordingId # "none" /\ t.recordingId \in sn.recordings)

\* lines 371-388: the list `missing` of one single
RECURSIVE MissingOf(_, _, _)
MissingOf(s_tracks, sn, rules) ==
    IF s_tracks = <<>> THEN <<>>
    ELSE LET t == Head(s_tracks)
             rest == MissingOf(Tail(s_tracks), sn, rules)
         IN IF t.title = <<>> THEN rest                       \* line 375: continue
            ELSE IF TrackMatches(t, sn, rules) THEN rest
            ELSE <<normalise(t.title, rules)>> \o rest

\* lines 365-369 and 390: the single goes to `suppressed`
SingleIsSuppressed(id, tracks, sn, rules) ==
    LET s_tracks == TracksOfAlbum(tracks, id) IN
    /\ s_tracks # <<>>
    /\ MissingOf(s_tracks, sn, rules) = <<>>

\* lines 357-401 without the remote calls: ids appended to `suppressed`
SuppressedIds(albums, tracks, rules) ==
    LET sn == SeenElsewhere(albums, tracks, rules)
        Supp(a) == SingleIsSuppressed(a.id, tracks, sn, rules)
        ss == SelectSeq(SinglesOf(albums), Supp)
    IN [i \in 1..Len(ss) |-> ss[i].id]

\* ids appended to `kept`
KeptIds(albums, tracks, rules) ==
    LET sn == SeenElsewhere(albums, tracks, rules)
        Keep(a) == ~SingleIsSuppressed(a.id, tracks, sn, rules)
        ss == SelectSeq(SinglesOf(albums), Keep)
    IN [i \in 1..Len(ss) |-> ss[i].id]

(***************************************************************************)
(* single-sieve.py main(): configuration and the remote library.           *)
(***************************************************************************)
NumArtists == 2

ArtistIds == 1..NumArtists

\* GET metadataProfile, line 250
profiles ==
    <<[id |-> "p1", name |-> "Standard"],
      [id |-> "p2", name |-> "Everything"],
      [id |-> "p3", name |-> "Compilations"]>>

ProfileIds == {p.id : p \in Range(profiles)}

\* cfg["metadata"]["target_profile"], line 253
target_profile == "Standard"

\* cfg["metadata"]["ignore_profiles"], line 254
ignore_profiles == {"Compilations"}

\* lines 251 and 260
target_profile_id ==
    (CHOOSE p \in Range(profiles) : p.name = target_profile).id

\* lines 267-270
CurrentProfileName(a) ==
    IF \E p \in Range(profiles) : p.id = a.metadataProfileId
    THEN (CHOOSE p \in Range(profiles) : p.id = a.metadataProfileId).name
    ELSE "unknown"

\* cfg["normalisation"] of the run
normalisation ==
    [lowercase |-> TRUE, strip_parentheses |-> TRUE, strip_brackets |-> TRUE,
     remove_punctuation |-> FALSE, collapse_whitespace |-> TRUE]

BehaviourFlags ==
    [dry_run : BOOLEAN, apply_profile : BOOLEAN, suppress_duplicates : BOOLEAN,
     skip_unmonitored : BOOLEAN, search_monitored : BOOLEAN]

\* The albums and tracks the remote store holds for every artist
\* (GET album?artistId=, GET track?artistId=); the monitored flags are the
\* initial ones, the current ones are in remoteAlbumMon.
LibraryAlbums ==
    <<[id |-> "lp", albumType |-> "Album", monitored |-> TRUE],
      [id |-> "ep", albumType |-> "EP", monitored |-> FALSE],
      [id |-> "s1", albumType |-> "Single", monitored |-> TRUE],
      [id |-> "s2", albumType |-> "Single", monitored |-> TRUE],
      [id |-> "s3", albumType |-> "Single", monitored |-> TRUE]>>

LibraryTracks ==
    <<[albumId |-> "lp", title |-> <<"S","o","n","g">>, recordingId |-> "r1"],
      [albumId |-> "ep", title |-> <<"B","-","s","i","d","e">>, recordingId |-> "r2"],
      [albumId |-> "s1", title |-> <<"s","o","n","g"," ","(","L","i","v","e",")">>,
       recordingId |-> "none"],
      [albumId |-> "s2", title |-> <<"B","-","s","i","d","e">>, recordingId |-> "r2"],
      [albumId |-> "s3", title |-> <<"R","e","m","i","x">>, recordingId |-> "r1"]>>

AlbumIds == {a.id : a \in Range(LibraryAlbums)}

\* GET album?artistId=i, line 327: the listing with the current flags
RemoteAlbums(i) ==
    [k \in 1..Len(LibraryAlbums) |->
        [LibraryAlbums[k] EXCEPT !.monitored = remoteAlbumMon[i][LibraryAlbums[k].id]]]

NoNote ==
    [outcome |-> "pending", failedAt |-> "none", commandFailed |-> FALSE,
     safetyChecked |-> FALSE, safetyFailed |-> FALSE]

PutOutcomes == {"ok", "rejected", "lost"}

\* no interrupt yet: `mid` tells whether the first one arrived while an artist
\* was being reconciled, `at` which artist that was, `forced` whether a second
\* one raised KeyboardInterrupt and `where` the part of main() it was raised in
NoSigint == [mid |-> FALSE, at |-> 0, forced |-> FALSE, where |-> "none"]

SieveInit ==
    /\ cfg \in BehaviourFlags
    /\ remoteArtist \in [ArtistIds -> [monitored : BOOLEAN, metadataProfileId : ProfileIds]]
    /\ artists = remoteArtist
    /\ shutdown_requested = FALSE
    /\ sigint = NoSigint
    /\ remoteAlbumMon =
         [i \in ArtistIds |-> [a \in AlbumIds |->
             (CHOOSE b \in Range(LibraryAlbums) : b.id = a).monitored]]
    /\ cmdStatus = "none"
    /\ idx = 0
    /\ pc = "loop"
    /\ artist = [monitored |-> FALSE, metadataProfileId |-> target_profile_id]
    /\ was_monitored = FALSE
    /\ needs_profile_change = FALSE
    /\ raised = FALSE
    /\ singles = <<>>
    /\ seen = [titles |-> {}, recordings |-> {}]
    /\ sPos = 0
    /\ suppressed = <<>>
    /\ kept = <<>>
    /\ calls = [i \in ArtistIds |-> <<>>]
    /\ note = [i \in ArtistIds |-> NoNote]

SieveIdle ==
    /\ cfg = [dry_run |-> FALSE, apply_profile |-> FALSE, suppress_duplicates |-> FALSE,
              skip_unmonitored |-> FALSE, search_monitored |-> FALSE]
    /\ artists = <<>>
    /\ shutdown_requested = FALSE
    /\ sigint = NoSigint
    /\ remoteArtist = <<>>
    /\ remoteAlbumMon = <<>>
    /\ cmdStatus = "none"
    /\ idx = 0
    /\ pc = "off"
    /\ artist = [monitored |-> FALSE, metadataProfileId |-> target_profile_id]
    /\ was_monitored = FALSE
    /\ needs_profile_change = FALSE
    /\ raised = FALSE
    /\ singles = <<>>
    /\ seen = [titles |-> {}, recordings |-> {}]
    /\ sPos = 0
    /\ suppressed = <<>>
    /\ kept = <<>>
    /\ calls = <<>>
    /\ note = <<>>

pruneVars == <<singles, seen, sPos, suppressed, kept>>
otherVars == <<suppVars, listenerVars, normVars>>
notSuppVars == <<sieveVars, listenerVars, normVars>>
notListenerVars == <<sieveVars, suppVars, normVars>>
notNormVars == <<sieveVars, suppVars, listenerVars>>

\* lidarr_put(cfg, "artist", body), lines 60-72: what the store holds afterwards.
\* "ok" stores the object and returns it, "rejected" raises and stores nothing,
\* "lost" stores it and raises (the response never arrives).
StoreAfterPut(i, body, outcome) ==
    IF outcome \in {"ok", "lost"} THEN [remoteArtist EXCEPT ![i] = body] ELSE remoteArtist

Logged(i, entry) == [calls EXCEPT ![i] = Append(@, entry)]

\* an exception leaves the try block at `step`: control goes to finally
Raise(step) ==
    /\ raised' = TRUE
    /\ pc' = "finally"
    /\ note' = [note EXCEPT ![idx].failedAt = step, ![idx].outcome = "failed"]

\* variant: the ignored-profile test of line 284 is missing
ShouldSkipUnmonitoredOnly(a) == cfg.skip_unmonitored /\ ~a.monitored

\* lines 277 and 284
ShouldSkip(a) ==
    \/ (cfg.skip_unmonitored /\ ~a.monitored)
    \/ CurrentProfileName(a) \in ignore_profiles

\* variant: every artist is taken to need a profile change
NeedsProfileChangeAlways(a) == TRUE

\* line 272
NeedsProfileChange(a) == a.metadataProfileId # target_profile_id

\* positions of main() inside the try block of one artist, lines 294-429
InTry == {"unmonitor", "profile", "refresh", "wait", "fetch", "prune", "remonitor", "search"}

\* handle_sigint, lines 17-21: the first interrupt only sets the flag
FirstSigint ==
    /\ pc \notin {"done", "crashed", "off"}
    /\ ~shutdown_requested
    /\ shutdown_requested' = TRUE
    /\ sigint' = [sigint EXCEPT !.mid = (pc \in InTry \cup {"finally"}), !.at = idx]
    /\ UNCHANGED <<cfg, artists, remoteArtist, remoteAlbumMon, cmdStatus, idx, pc, artist,
                   was_monitored, needs_profile_change, raised, pruneVars, calls, note>>
    /\ UNCHANGED otherVars

\* handle_sigint, lines 22-24: a further interrupt raises KeyboardInterrupt in
\* main() wherever it is. Inside the try block the finally block still runs;
\* inside the finally block (whose except clause catches Exception only) and
\* between two artists the exception leaves main() at once.
SecondSigint ==
    /\ pc \notin {"done", "crashed", "off"}
    /\ shutdown_requested
    /\ ~sigint.forced
    /\ sigint' = [sigint EXCEPT !.forced = TRUE,
                                !.where = IF pc \in InTry THEN "try" ELSE pc]
    /\ raised' = TRUE
    /\ cmdStatus' = "none"
    /\ pc' = IF pc \in InTry THEN "finally" ELSE "crashed"
    /\ note' = IF pc = "loop" THEN note
               ELSE [note EXCEPT ![idx].failedAt = "interrupt", ![idx].outcome = "failed"]
    /\ UNCHANGED <<cfg, artists, shutdown_requested, remoteArtist, remoteAlbumMon, idx,
                   artist, was_monitored, needs_profile_change, pruneVars, calls>>
    /\ UNCHANGED otherVars

\* for artist in artists, lines 262-289, and "Done." at line 450
NextArtist ==
    /\ pc = "loop"
    /\ IF idx = NumArtists
       THEN /\ pc' = "done"
            /\ UNCHANGED <<idx, artist, was_monitored, needs_profile_change, note>>
       ELSE LET i == idx + 1
                a == artists[i]
            IN /\ idx' = i
               /\ artist' = a
               /\ was_monitored' = a.monitored
               /\ needs_profile_change' = NeedsProfileChange(a)
               /\ IF ShouldSkip(a)
                  THEN /\ note' = [note EXCEPT ![i].outcome = "skipped"]
                       /\ pc' = IF shutdown_requested THEN "done" ELSE "loop"
                  ELSE /\ note' = [note EXCEPT ![i].outcome = "processing"]
                       /\ pc' = "unmonitor"
    /\ UNCHANGED <<cfg, artists, shutdown_requested, sigint, remoteArtist, remoteAlbumMon,
                   cmdStatus, raised, pruneVars, calls>>
    /\ UNCHANGED otherVars

\* set_artist_monitored(cfg, artist, monitored, dry_run=dry_run), lines 161-177,
\* called at `step`; `after` is where main() goes on when it returns
SetArtistMonitored(monitored, step, outcome, after) ==
    IF artist.monitored = monitored
    THEN /\ outcome = "ok"
         /\ pc' = after
         /\ UNCHANGED <<artist, remoteArtist, calls, raised, note>>
    ELSE LET body == [artist EXCEPT !.monitored = monitored] IN
         IF cfg.dry_run
         THEN /\ outcome = "ok"
              /\ artist' = body
              /\ pc' = after
              /\ UNCHANGED <<remoteArtist, calls, raised, note>>
         ELSE /\ remoteArtist' = StoreAfterPut(idx, body, outcome)
              /\ calls' = Logged(idx, [call |-> "PUT /artist", step |-> step,
                                       body |-> body, outcome |-> outcome])
              /\ IF outcome = "ok"
                 THEN /\ artist' = remoteArtist'[idx]
                      /\ pc' = after
                      /\ UNCHANGED <<raised, note>>
                 ELSE /\ artist' = body
                      /\ Raise(step)

\* lines 295-297
Unmonitor ==
    /\ pc = "unmonitor"
    /\ IF was_monitored /\ needs_profile_change
       THEN \E outcome \in PutOutcomes : SetArtistMonitored(FALSE, "unmonitor", outcome, "profile")
       ELSE /\ pc' = "profile"
            /\ UNCHANGED <<artist, remoteArtist, calls, raised, note>>
    /\ UNCHANGED <<cfg, artists, shutdown_requested, sigint, remoteAlbumMon, cmdStatus, idx,
                   was_monitored, needs_profile_change, pruneVars>>
    /\ UNCHANGED otherVars

\* lines 301-308
ApplyProfile ==
    /\ pc = "profile"
    /\ IF cfg.apply_profile /\ artist.metadataProfileId # target_profile_id
       THEN LET body == [artist EXCEPT !.metadataProfileId = target_profile_id] IN
            IF cfg.dry_run
            THEN /\ artist' = body
                 /\ pc' = "refresh"
                 /\ UNCHANGED <<remoteArtist, calls, raised, note>>
            ELSE \E outcome \in PutOutcomes :
                 /\ remoteArtist' = StoreAfterPut(idx, body, outcome)
                 /\ calls' = Logged(idx, [call |-> "PUT /artist", step |-> "profile",
                                          body |-> body, outcome |-> outcome])
                 /\ IF outcome = "ok"
                    THEN /\ artist' = remoteArtist'[idx]
                         /\ pc' = "refresh"
                         /\ UNCHANGED <<raised, note>>
                    ELSE /\ artist' = body
                         /\ Raise("profile")
       ELSE /\ pc' = "refresh"
            /\ UNCHANGED <<artist, remoteArtist, calls, raised, note>>
    /\ UNCHANGED <<cfg, artists, shutdown_requested, sigint, remoteAlbumMon, cmdStatus, idx,
                   was_monitored, needs_profile_change, pruneVars>>
    /\ UNCHANGED otherVars

\* refresh_artist_and_wait up to the POST, lines 311-316 and 134-141
TriggerRefresh ==
    /\ pc = "refresh"
    /\ IF needs_profile_change /\ ~cfg.dry_run
       THEN \E outcome \in {"ok", "noid", "rejected"} :
            /\ calls' = Logged(idx, [call |-> "POST /command", step |-> "refresh",
                                     body |-> [name |-> "RefreshArtist"],
                                     outcome |-> outcome])
            /\ IF outcome = "ok"
               THEN /\ cmdStatus' = "queued"
                    /\ pc' = "wait"
                    /\ UNCHANGED <<raised, note>>
               ELSE /\ UNCHANGED cmdStatus
                    /\ Raise("refresh")
       ELSE /\ pc' = "fetch"
            /\ UNCHANGED <<calls, cmdStatus, raised, note>>
    /\ UNCHANGED <<cfg, artists, shutdown_requested, sigint, remoteArtist, remoteAlbumMon, idx,
                   artist, was_monitored, needs_profile_change, pruneVars>>
    /\ UNCHANGED otherVars

\* the remote service runs the command: queued, started, then completed or failed
CommandProgress ==
    /\ pc = "wait"
    /\ \/ cmdStatus = "queued" /\ cmdStatus' = "started"
       \/ cmdStatus = "started" /\ cmdStatus' \in {"completed", "failed"}
    /\ UNCHANGED <<cfg, artists, shutdown_requested, sigint, remoteArtist, remoteAlbumMon, idx, pc,
                   artist, was_monitored, needs_profile_change, raised, pruneVars, calls,
                   note>>
    /\ UNCHANGED otherVars

\* variant: status started ends the wait like completed
PollResultStartedReturns(state) ==
    IF state \in {"completed", "started"} THEN "return"
    ELSE IF state = "failed" THEN "raise"
    ELSE "sleep"

\* variant: status failed ends the wait like completed
PollResultFailedReturns(state) ==
    IF state \in {"completed", "failed"} THEN "return" ELSE "sleep"

\* what one poll of wait_for_command does with the status it reads, lines 119-127
PollResult(state) ==
    IF state = "completed" THEN "return"
    ELSE IF state = "failed" THEN "raise"
    ELSE "sleep"

\* wait_for_command, lines 116-127: the iteration of the polling loop that ends
\* the wait (an iteration that reads another status sleeps and changes nothing)
WaitForCommand ==
    /\ pc = "wait"
    /\ \E got \in {"ok", "rejected"} :
         IF got = "rejected"
         THEN /\ Raise("wait")
              /\ calls' = Logged(idx, [call |-> "GET /command", step |-> "wait",
                                       body |-> [status |-> "none"], outcome |-> got])
              /\ cmdStatus' = "none"
         ELSE LET r == PollResult(cmdStatus)
                  seenFailed == (cmdStatus = "failed")
              IN /\ r # "sleep"
                 /\ calls' = Logged(idx, [call |-> "GET /command", step |-> "wait",
                                          body |-> [status |-> cmdStatus], outcome |-> got])
                 /\ IF r = "return"
                    THEN /\ pc' = "fetch"
                         /\ note' = [note EXCEPT ![idx].commandFailed = seenFailed]
                         /\ UNCHANGED raised
                    ELSE /\ raised' = TRUE
                         /\ pc' = "finally"
                         /\ note' = [note EXCEPT ![idx].failedAt = "wait",
                                                 ![idx].outcome = "failed",
                                                 ![idx].commandFailed = seenFailed]
                 /\ cmdStatus' = "none"
    /\ UNCHANGED <<cfg, artists, shutdown_requested, sigint, remoteArtist, remoteAlbumMon, idx,
                   artist, was_monitored, needs_profile_change, pruneVars>>
    /\ UNCHANGED otherVars

\* lines 326-359: the two listings and the witness sets
FetchLibrary ==
    /\ pc = "fetch"
    /\ \E outcome \in {"ok", "track_failed", "album_failed"} :
         /\ calls' = Logged(idx, [call |-> "GET /track", step |-> "fetch",
                                  body |-> [artistId |-> idx], outcome |-> outcome])
         /\ IF outcome = "ok"
            THEN LET albums == RemoteAlbums(idx)
                     ss == SinglesOf(albums)
                 IN /\ singles' = [k \in 1..Len(ss) |-> ss[k].id]
                    /\ seen' = SeenElsewhere(albums, LibraryTracks, normalisation)
                    /\ sPos' = 1
                    /\ suppressed' = <<>>
                    /\ kept' = <<>>
                    /\ pc' = "prune"
                    /\ UNCHANGED <<raised, note>>
            ELSE /\ Raise("fetch")
                 /\ UNCHANGED pruneVars
    /\ UNCHANGED <<cfg, artists, shutdown_requested, sigint, remoteArtist, remoteAlbumMon,
                   cmdStatus, idx, artist, was_monitored, needs_profile_change>>
    /\ UNCHANGED otherVars

\* variant: the suppress_duplicates test of line 392 is missing
WritesSuppressionAlways == ~cfg.dry_run

\* variant: the dry_run test of line 393 is missing
WritesSuppressionInDryRun == cfg.suppress_duplicates

\* lines 392-398: does the loop write the suppressed single to the remote store
WritesSuppression == cfg.suppress_duplicates /\ ~cfg.dry_run

\* lines 361-401: one iteration of the loop over the singles
PruneSingle ==
    /\ pc = "prune"
    /\ sPos <= Len(singles)
    /\ LET s_id == singles[sPos] IN
       IF SingleIsSuppressed(s_id, LibraryTracks, seen, normalisation)
       THEN /\ suppressed' = Append(suppressed, s_id)
            /\ UNCHANGED kept
            /\ IF WritesSuppression
               THEN \E outcome \in PutOutcomes \cup {"get_failed"} :
                    /\ IF outcome = "get_failed"
                       THEN UNCHANGED <<calls, remoteAlbumMon>>
                       ELSE /\ calls' = Logged(idx,
                                   [call |-> "PUT /album", step |-> "prune",
                                    body |-> [id |-> s_id, monitored |-> FALSE],
                                    outcome |-> outcome])
                            /\ remoteAlbumMon' =
                                 IF outcome \in {"ok", "lost"}
                                 THEN [remoteAlbumMon EXCEPT ![idx][s_id] = FALSE]
                                 ELSE remoteAlbumMon
                    /\ IF outcome = "ok"
                       THEN /\ sPos' = sPos + 1
                            /\ UNCHANGED <<pc, raised, note>>
                       ELSE /\ Raise("prune")
                            /\ UNCHANGED sPos
               ELSE /\ sPos' = sPos + 1
                    /\ UNCHANGED <<calls, remoteAlbumMon, pc, raised, note>>
       ELSE /\ kept' = Append(kept, s_id)
            /\ sPos' = sPos + 1
            /\ UNCHANGED <<suppressed, calls, remoteAlbumMon, pc, raised, note>>
    /\ UNCHANGED <<cfg, artists, shutdown_requested, sigint, remoteArtist, cmdStatus, idx, artist,
                   was_monitored, needs_profile_change, singles, seen>>
    /\ UNCHANGED otherVars

\* lines 403-413: the loop is over, the report is printed
PruneDone ==
    /\ pc = "prune"
    /\ sPos > Len(singles)
    /\ pc' = "remonitor"
    /\ UNCHANGED <<cfg, artists, shutdown_requested, sigint, remoteArtist, remoteAlbumMon,
                   cmdStatus, idx, artist, was_monitored, needs_profile_change, raised,
                   pruneVars, calls, note>>
    /\ UNCHANGED otherVars

\* variant: the search_monitored test of line 422 is missing
AfterRemonitorAlwaysSearch == "search"

\* line 422: where main() goes on after the re-monitor write
AfterRemonitor == IF cfg.search_monitored THEN "search" ELSE "finally"

\* lines 418-420
Remonitor ==
    /\ pc = "remonitor"
    /\ IF was_monitored /\ needs_profile_change
       THEN \E outcome \in PutOutcomes :
              SetArtistMonitored(TRUE, "remonitor", outcome, AfterRemonitor)
       ELSE /\ pc' = "finally"
            /\ UNCHANGED <<artist, remoteArtist, calls, raised, note>>
    /\ UNCHANGED <<cfg, artists, shutdown_requested, sigint, remoteAlbumMon, cmdStatus, idx,
                   was_monitored, needs_profile_change, pruneVars>>
    /\ UNCHANGED otherVars

\* lines 422-429 and artist_search, lines 146-154
SearchMonitored ==
    /\ pc = "search"
    /\ IF cfg.dry_run
       THEN /\ pc' = "finally"
            /\ UNCHANGED <<calls, raised, note>>
       ELSE \E outcome \in {"ok", "rejected"} :
            /\ calls' = Logged(idx, [call |-> "POST /command", step |-> "search",
                                     body |-> [name |-> "ArtistSearch"],
                                     outcome |-> outcome])
            /\ IF outcome = "ok"
               THEN /\ pc' = "finally"
                    /\ UNCHANGED <<raised, note>>
               ELSE Raise("search")
    /\ UNCHANGED <<cfg, artists, shutdown_requested, sigint, remoteArtist, remoteAlbumMon,
                   cmdStatus, idx, artist, was_monitored, needs_profile_change, pruneVars>>
    /\ UNCHANGED otherVars

\* variant: the was_monitored test of line 437 is missing
SafetyNetRestoresUnmonitored == ~cfg.dry_run /\ ~artist.monitored

\* lines 437 and 439: does the safety net write
SafetyNetRestores == was_monitored /\ ~cfg.dry_run /\ ~artist.monitored

\* variant: the shutdown test of line 446 is missing
AfterFinallyIgnoresShutdown == IF raised THEN "crashed" ELSE "loop"

\* after the finally block: an exception in flight leaves the for loop and main()
\* (there is no except clause); otherwise lines 446-448
AfterFinally ==
    IF raised THEN "crashed"
    ELSE IF shutdown_requested THEN "done"
    ELSE "loop"

\* variant: what a failed restoring PUT raises replaces the artist's error
FailedAtAfterSafetyNetMasks(outcome) ==
    IF outcome # "ok" THEN "safety" ELSE note[idx].failedAt

\* lines 438-444: the except clause swallows what the restoring PUT raises, so
\* the step whose exception is in flight is after the block what it was before
FailedAtAfterSafetyNet(outcome) == note[idx].failedAt

\* the finally block, lines 434-444, and what follows it
Finally ==
    /\ pc = "finally"
    /\ IF SafetyNetRestores
       THEN LET body == [artist EXCEPT !.monitored = TRUE] IN
            \E outcome \in PutOutcomes :
            /\ remoteArtist' = StoreAfterPut(idx, body, outcome)
            /\ calls' = Logged(idx, [call |-> "PUT /artist", step |-> "safety",
                                     body |-> body, outcome |-> outcome])
            /\ artist' = IF outcome = "ok" THEN remoteArtist'[idx] ELSE body
            /\ note' = [note EXCEPT
                          ![idx].safetyChecked = TRUE,
                          ![idx].safetyFailed = (outcome # "ok"),
                          ![idx].failedAt = FailedAtAfterSafetyNet(outcome),
                          ![idx].outcome = IF raised THEN "failed" ELSE "done"]
       ELSE /\ note' = [note EXCEPT
                          ![idx].safetyChecked = TRUE,
                          ![idx].outcome = IF raised THEN "failed" ELSE "done"]
            /\ UNCHANGED <<remoteArtist, calls, artist>>
    /\ pc' = AfterFinally
    /\ UNCHANGED <<cfg, artists, shutdown_requested, sigint, remoteAlbumMon, cmdStatus, idx,
                   was_monitored, needs_profile_change, raised, pruneVars>>
    /\ UNCHANGED otherVars

SieveNext ==
    \/ NextArtist
    \/ Unmonitor
    \/ ApplyProfile
    \/ TriggerRefresh
    \/ CommandProgress
    \/ WaitForCommand
    \/ FetchLibrary
    \/ PruneSingle
    \/ PruneDone
    \/ Remonitor
    \/ SearchMonitored
    \/ Finally
    \/ FirstSigint
    \/ SecondSigint

(***************************************************************************)
(* The singles prune on drawn album and track listings.                    *)
(***************************************************************************)
MaxTracks == 3

TitleChoices ==
    {<<>>, <<"A","b">>, <<"a","b"," ","(","x",")">>}

RecordingChoices == {"none", "r1", "r2"}

AlbumChoices ==
    {<<[id |-> "a1", albumType |-> "Album", monitored |-> m1],
       [id |-> "a2", albumType |-> ty, monitored |-> m2]>> :
        m1 \in BOOLEAN, m2 \in BOOLEAN, ty \in {"Single", "EP"}}

TrackChoices ==
    [albumId : {"a1", "a2"}, title : TitleChoices, recordingId : RecordingChoices]

RuleChoices ==
    {normalisation,
     [lowercase |-> FALSE, strip_parentheses |-> FALSE, strip_brackets |-> FALSE,
      remove_punctuation |-> FALSE, collapse_whitespace |-> FALSE]}

NoFirstPass == [albums |-> <<>>, suppressed |-> <<>>]

SuppInit ==
    /\ in_albums \in AlbumChoices
    /\ in_rules \in RuleChoices
    /\ in_tracks = <<>>
    /\ out_suppressed = <<>>
    /\ out_kept = <<>>
    /\ sphase = "listing"
    /\ first_pass = NoFirstPass

SuppIdle ==
    /\ in_albums = <<>>
    /\ in_rules = normalisation
    /\ in_tracks = <<>>
    /\ out_suppressed = <<>>
    /\ out_kept = <<>>
    /\ sphase = "off"
    /\ first_pass = NoFirstPass

\* one more track in the listing GET track returns
ListTrack ==
    /\ sphase = "listing"
    /\ Len(in_tracks) < MaxTracks
    /\ \E t \in TrackChoices : in_tracks' = Append(in_tracks, t)
    /\ UNCHANGED <<in_albums, in_rules, out_suppressed, out_kept, sphase, first_pass>>
    /\ UNCHANGED notSuppVars

\* lines 329-401 on the listing
RunPrune ==
    /\ sphase = "listing"
    /\ out_suppressed' = SuppressedIds(in_albums, in_tracks, in_rules)
    /\ out_kept' = KeptIds(in_albums, in_tracks, in_rules)
    /\ sphase' = "pruned"
    /\ UNCHANGED <<in_albums, in_tracks, in_rules, first_pass>>
    /\ UNCHANGED notSuppVars

\* lines 396-398: the album listing once the suppressed singles have been
\* written with monitored = False, everything else as it was
AfterSuppression(albums, ids) ==
    [k \in 1..Len(albums) |->
        IF albums[k].id \in Range(ids)
        THEN [albums[k] EXCEPT !.monitored = FALSE]
        ELSE albums[k]]

\* lines 329-401 a second time, on the listing the first pass left behind
RunPruneAgain ==
    /\ sphase = "pruned"
    /\ first_pass' = [albums |-> in_albums, suppressed |-> out_suppressed]
    /\ in_albums' = AfterSuppression(in_albums, out_suppressed)
    /\ out_suppressed' = SuppressedIds(in_albums', in_tracks, in_rules)
    /\ out_kept' = KeptIds(in_albums', in_tracks, in_rules)
    /\ sphase' = "repruned"
    /\ UNCHANGED <<in_tracks, in_rules>>
    /\ UNCHANGED notSuppVars

SuppNext == ListTrack \/ RunPrune \/ RunPruneAgain

(***************************************************************************)
(* normalise on drawn titles and rule sets.                                *)
(***************************************************************************)
MaxTitleLen == 3

\* characters a drawn title is made of: letters of both cases, a digit, the
\* ampersand, white space, the two kinds of group delimiters, punctuation
TitleChars == {"A", "b", "1", "&", " ", "(", ")", "[", "]", "!"}

\* the title "A & B (Remix) [Live]"
RemixTitle ==
    <<"A"," ","&"," ","B"," ","(","R","e","m","i","x",")"," ","[","L","i","v","e","]">>

\* every setting of the five rule flags read at lines 92-106
RuleSets ==
    [lowercase : BOOLEAN, strip_parentheses : BOOLEAN, strip_brackets : BOOLEAN,
     remove_punctuation : BOOLEAN, collapse_whitespace : BOOLEAN]

NormInit ==
    /\ n_title \in {<<>>, RemixTitle}
    /\ n_rules \in RuleSets
    /\ n_out = <<>>
    /\ nphase = "typing"

NormIdle ==
    /\ n_title = <<>>
    /\ n_rules = normalisation
    /\ n_out = <<>>
    /\ nphase = "off"

\* one more character in the title passed to normalise
TypeChar ==
    /\ nphase = "typing"
    /\ Len(n_title) < MaxTitleLen
    /\ \E c \in TitleChars : n_title' = Append(n_title, c)
    /\ UNCHANGED <<n_rules, n_out, nphase>>
    /\ UNCHANGED notNormVars

\* normalise(title, rules), lines 89-109
Normalise ==
    /\ nphase = "typing"
    /\ n_out' = normalise(n_title, n_rules)
    /\ nphase' = "done"
    /\ UNCHANGED <<n_title, n_rules>>
    /\ UNCHANGED notNormVars

NormNext == TypeChar \/ Normalise

(***************************************************************************)
(* listener.py: webhook handlers, ensure_worker and the worker thread.     *)
(* The bodies of `with queue_lock` are atomic steps.                       *)
(***************************************************************************)
NumMbids == 2
NumHandlers == 2
NumThreads == 2
MaxEvents == 4

Mbids == 1..NumMbids
Handlers == 1..NumHandlers
Threads == 1..NumThreads

ListenerInit ==
    /\ queue = {}
    /\ worker_running = FALSE
    /\ hpc = [h \in Handlers |-> "idle"]
    /\ hmbid = [h \in Handlers |-> 1]
    /\ wpc = [w \in Threads |-> "none"]
    /\ wmbid = [w \in Threads |-> 1]
    /\ jobs = [m \in Mbids |-> 0]
    /\ batches = [m \in Mbids |-> 0]
    /\ events = [m \in Mbids |-> 0]
    /\ pendingEvents = [m \in Mbids |-> 0]
    /\ total = 0

ListenerIdle ==
    /\ queue = {}
    /\ worker_running = FALSE
    /\ hpc = <<>>
    /\ hmbid = <<>>
    /\ wpc = <<>>
    /\ wmbid = <<>>
    /\ jobs = <<>>
    /\ batches = <<>>
    /\ events = <<>>
    /\ pendingEvents = <<>>
    /\ total = 0

\* threads that are inside worker_loop
LiveWorkers == {w \in Threads : wpc[w] \in {"loop", "run"}}

\* lines 49-62: a call that is not an ArtistAdd with an mbid is answered at once
WebhookIgnored(h) ==
    /\ hpc[h] = "idle"
    /\ total < MaxEvents
    /\ total' = total + 1
    /\ UNCHANGED <<queue, worker_running, hpc, hmbid, wpc, wmbid, jobs, batches, events,
                   pendingEvents>>
    /\ UNCHANGED notListenerVars

\* lines 49-62: an ArtistAdd event for mbid arrives
WebhookReceive(h, mbid) ==
    /\ hpc[h] = "idle"
    /\ total < MaxEvents
    /\ total' = total + 1
    /\ hpc' = [hpc EXCEPT ![h] = "enqueue"]
    /\ hmbid' = [hmbid EXCEPT ![h] = mbid]
    /\ UNCHANGED <<queue, worker_running, wpc, wmbid, jobs, batches, events, pendingEvents>>
    /\ UNCHANGED notListenerVars

\* variant: an mbid whose job is running is dropped instead of added
QueueAfterEnqueueUnlessProcessing(mbid) ==
    IF mbid \in queue \/ (\E w \in DOMAIN wpc : wpc[w] = "run" /\ wmbid[w] = mbid)
    THEN queue
    ELSE queue \cup {mbid}

\* lines 64-69: the queue after the handler's locked region
QueueAfterEnqueue(mbid) ==
    IF mbid \in queue THEN queue ELSE queue \cup {mbid}

\* lines 64-69
WebhookEnqueue(h) ==
    /\ hpc[h] = "enqueue"
    /\ queue' = QueueAfterEnqueue(hmbid[h])
    /\ events' = [events EXCEPT ![hmbid[h]] = @ + 1]
    /\ pendingEvents' = [pendingEvents EXCEPT ![hmbid[h]] = @ + 1]
    /\ batches' = IF pendingEvents[hmbid[h]] = 0
                  THEN [batches EXCEPT ![hmbid[h]] = @ + 1]
                  ELSE batches
    /\ hpc' = [hpc EXCEPT ![h] = "ensure"]
    /\ UNCHANGED <<worker_running, hmbid, wpc, wmbid, jobs, total>>
    /\ UNCHANGED notListenerVars

\* variant: the flag test of line 40 is missing
EnsureStartsAlways == TRUE

\* lines 39-42: does ensure_worker go on to start a thread
EnsureStarts == ~worker_running

\* ensure_worker, lines 36-42: the locked check-and-set
EnsureWorkerCheck(h) ==
    /\ hpc[h] = "ensure"
    /\ IF EnsureStarts
       THEN /\ worker_running' = TRUE
            /\ hpc' = [hpc EXCEPT ![h] = "start"]
       ELSE /\ hpc' = [hpc EXCEPT ![h] = "idle"]
            /\ UNCHANGED worker_running
    /\ UNCHANGED <<queue, hmbid, wpc, wmbid, jobs, batches, events, pendingEvents, total>>
    /\ UNCHANGED notListenerVars

\* ensure_worker, lines 44-45: thread.start(), then the handler returns
EnsureWorkerStart(h) ==
    /\ hpc[h] = "start"
    /\ \E w \in Threads :
         /\ wpc[w] = "none"
         /\ \A v \in Threads : wpc[v] = "none" => w <= v
         /\ wpc' = [wpc EXCEPT ![w] = "loop"]
    /\ hpc' = [hpc EXCEPT ![h] = "idle"]
    /\ UNCHANGED <<queue, worker_running, hmbid, wmbid, jobs, batches, events,
                   pendingEvents, total>>
    /\ UNCHANGED notListenerVars

\* variant: the mbid is read but not removed
QueueAfterPopKeeps(mbid) == queue

\* line 23: the queue after mbid = queue.pop()
QueueAfterPop(mbid) == queue \ {mbid}

\* worker_loop, lines 18-23, with the queue empty: clear the flag and return
WorkerStop(w) ==
    /\ wpc[w] = "loop"
    /\ queue = {}
    /\ worker_running' = FALSE
    /\ wpc' = [wpc EXCEPT ![w] = "none"]
    /\ UNCHANGED <<queue, hpc, hmbid, wmbid, jobs, batches, events, pendingEvents, total>>
    /\ UNCHANGED notListenerVars

\* worker_loop, lines 18-31, with the queue non-empty: pop one mbid and call
\* subprocess.run for it
WorkerClaim(w) ==
    /\ wpc[w] = "loop"
    /\ queue # {}
    /\ \E mbid \in queue :
         /\ queue' = QueueAfterPop(mbid)
         /\ wmbid' = [wmbid EXCEPT ![w] = mbid]
         /\ jobs' = [jobs EXCEPT ![mbid] = @ + 1]
         /\ pendingEvents' = [pendingEvents EXCEPT ![mbid] = 0]
    /\ wpc' = [wpc EXCEPT ![w] = "run"]
    /\ UNCHANGED <<worker_running, hpc, hmbid, batches, events, total>>
    /\ UNCHANGED notListenerVars

\* lines 27-33: what becomes of the thread when subprocess.run ends with `how`.
\* Exit status 0 returns; a non-zero status raises CalledProcessError, which
\* is caught; a launch failure raises OSError, which no clause catches, so
\* the thread ends.
ThreadAfterJob(how) ==
    IF how = "launch_failed" THEN "dead" ELSE "loop"

\* lines 27-33: the job of thread w ends
JobEnds(w, how) ==
    /\ wpc[w] = "run"
    /\ wpc' = [wpc EXCEPT ![w] = ThreadAfterJob(how)]
    /\ UNCHANGED <<queue, worker_running, hpc, hmbid, wmbid, jobs, batches, events,
                   pendingEvents, total>>
    /\ UNCHANGED notListenerVars

JobOutcomes == {"exit_zero", "exit_nonzero", "launch_failed"}

ListenerNext ==
    \/ \E h \in Handlers : WebhookIgnored(h)
    \/ \E h \in Handlers, mbid \in Mbids : WebhookReceive(h, mbid)
    \/ \E h \in Handlers : WebhookEnqueue(h)
    \/ \E h \in Handlers : EnsureWorkerCheck(h)
    \/ \E h \in Handlers : EnsureWorkerStart(h)
    \/ \E w \in Threads : WorkerStop(w)
    \/ \E w \in Threads : WorkerClaim(w)
    \/ \E w \in Threads, how \in JobOutcomes : JobEnds(w, how)

(***************************************************************************)
(* Specifications.                                                         *)
(***************************************************************************)
Init == SieveInit /\ SuppIdle /\ ListenerIdle /\ NormIdle
Next == SieveNext
Spec == Init /\ [][Next]_vars

SuppSpecInit == SieveIdle /\ SuppInit /\ ListenerIdle /\ NormIdle
SuppSpec == SuppSpecInit /\ [][SuppNext]_vars

\* the polling loop of wait_for_command goes on running (lines 117-127): once
\* the command is completed or failed, the next poll ends the wait
TerminalStatuses == {"completed", "failed"}
WaitFairness == WF_vars(cmdStatus \in TerminalStatuses /\ WaitForCommand)
SpecFair == Spec /\ WaitFairness

NormSpecInit == SieveIdle /\ SuppIdle /\ ListenerIdle /\ NormInit
NormSpec == NormSpecInit /\ [][NormNext]_vars

ListenerSpecInit == SieveIdle /\ SuppIdle /\ ListenerInit /\ NormIdle
ListenerSpec == ListenerSpecInit /\ [][ListenerNext]_vars

\* Threads are scheduled fairly and subprocess.run ends: every step of a
\* handler past the receipt of its event and every step of a worker thread
\* is eventually taken. The arrival of webhook calls is not forced.
ListenerFairness ==
    /\ \A h \in Handlers : WF_vars(WebhookEnqueue(h))
    /\ \A h \in Handlers : WF_vars(EnsureWorkerCheck(h))
    /\ \A h \in Handlers : WF_vars(EnsureWorkerStart(h))
    /\ \A w \in Threads : WF_vars(WorkerStop(w))
    /\ \A w \in Threads : WF_vars(WorkerClaim(w))
    /\ \A w \in Threads : WF_vars(\E how \in JobOutcomes : JobEnds(w, how))

ListenerFairSpec == ListenerSpec /\ ListenerFairness

(***************************************************************************)
(* Properties.                                                             *)
(***************************************************************************)
\* the artist loop has left artist i
ArtistLeft(i) ==
    \/ idx > i
    \/ (idx = i /\ pc \in {"loop", "done", "crashed"})

WriteCalls == {"PUT /artist", "PUT /album", "POST /command"}

CallsOf(i, kinds) == {k \in DOMAIN calls[i] : calls[i][k].call \in kinds}

\* C1: an artist that was monitored at the start is monitored on the remote
\* store once its sequence, safety net included, has ended (dry_run off),
\* whichever step of the sequence raised; runs in which the safety net's own
\* PUT fails, or a second interrupt exits the run, are left out: the claim
\* lists the steps of the sequence.
C1_RestoreInvariant ==
    \A i \in ArtistIds :
        (/\ ArtistLeft(i)
         /\ artists[i].monitored
         /\ ~cfg.dry_run
         /\ ~note[i].safetyFailed
         /\ ~sigint.forced)
        => remoteArtist[i].monitored

Processing(mbid) == \E w \in Threads : wpc[w] = "run" /\ wmbid[w] = mbid

C3_FailureContained ==
    (pc \in {"done", "crashed"} /\ ~shutdown_requested)
    => \A i \in ArtistIds :
          note[i].outcome = "failed"
          => \A j \in ArtistIds : j > i => note[j].outcome # "pending"

\* handlers between ensure_worker's check-and-set and thread.start()
StartingHandlers == {h \in Handlers : hpc[h] = "start"}

\* C4: at most one worker thread exists, counting one that ensure_worker is
\* about to start, and whenever one exists the flag is set; so at most one
\* job runs, and a thread is started only by the handler that set the flag.
C4_SingleFlight ==
    /\ Cardinality(LiveWorkers) + Cardinality(StartingHandlers) <= 1
    /\ (LiveWorkers # {} \/ StartingHandlers # {}) => worker_running
    /\ Cardinality({w \in Threads : wpc[w] = "run"}) <= 1

\* C4 witness: a worker is running a job while another event has been
\* enqueued and its handler is about to call ensure_worker.
C4_Witness ==
    /\ \E w \in Threads : wpc[w] = "run"
    /\ \E h \in Handlers : hpc[h] = "ensure"
    /\ queue # {}

\* C5: per mbid, every run of enqueues between two claims makes one pending
\* entry and one job: the jobs so far plus the pending entry equal the number
\* of such runs, and the mbid is pending exactly while enqueues wait for a claim.
C5_QueueDedup ==
    \A m \in Mbids :
        /\ jobs[m] + (IF m \in queue THEN 1 ELSE 0) = batches[m]
        /\ (m \in queue) <=> (pendingEvents[m] > 0)

\* C5 witness: an mbid was enqueued twice before its claim and one job ran.
C5_Witness ==
    \E m \in Mbids :
        /\ events[m] = 2
        /\ batches[m] = 1
        /\ jobs[m] = 1
        /\ m \notin queue

\* C6 as stated: no worker thread dies, and the flag is never set without a
\* worker thread alive or about to be started.
C6_FailureNeverStopsWorker ==
    /\ \A w \in Threads : wpc[w] # "dead"
    /\ worker_running => (LiveWorkers # {} \/ StartingHandlers # {})

\* C7 as stated: every mbid in the queue is eventually claimed.
C7_NoStrandedId ==
    \A m \in Mbids : (m \in queue) ~> (m \notin queue)

\* the tracks the listing holds for an album, as a set
TrackSetOf(id) == {t \in Range(in_tracks) : t.albumId = id}

\* tracks of monitored albums that are not singles
WitnessTracks ==
    {t \in Range(in_tracks) :
        \E a \in Range(in_albums) :
            a.id = t.albumId /\ a.albumType # "Single" /\ a.monitored}

\* a track matches: its normalised title is a witness title, or its recording
\* id is present and a witness recording
Matches(t) ==
    \/ \E u \in WitnessTracks :
          u.title # <<>> /\ normalise(u.title, in_rules) = normalise(t.title, in_rules)
    \/ (t.recordingId # "none" /\ \E u \in WitnessTracks : u.recordingId = t.recordingId)

InSuppressed(id) == \E k \in DOMAIN out_suppressed : out_suppressed[k] = id
InKept(id) == \E k \in DOMAIN out_kept : out_kept[k] = id

\* C8 as stated: a single is suppressed iff it has a track and every one of
\* its tracks matches.
C8_SuppressedIffAllTracksMatch ==
    sphase = "pruned" =>
        \A a \in Range(in_albums) :
            a.albumType = "Single" =>
                (InSuppressed(a.id) <=>
                    (TrackSetOf(a.id) # {} /\ \A t \in TrackSetOf(a.id) : Matches(t)))

\* C8 amended: a single is suppressed iff it has a track and every one of its
\* tracks that has a title matches; otherwise it is kept; albums that are not
\* singles are neither.
C8_SuppressedIffAllTitledTracksMatch ==
    sphase = "pruned" =>
        \A a \in Range(in_albums) :
            IF a.albumType = "Single"
            THEN /\ InSuppressed(a.id) <=>
                       (/\ TrackSetOf(a.id) # {}
                        /\ \A t \in TrackSetOf(a.id) : t.title # <<>> => Matches(t))
                 /\ InKept(a.id) <=> ~InSuppressed(a.id)
            ELSE ~InSuppressed(a.id) /\ ~InKept(a.id)

\* C8 witness: a suppressed single with a track matched by its recording id
\* only and a track without a title that matches nothing.
C8_Witness ==
    /\ sphase = "pruned"
    /\ \E a \in Range(in_albums) :
          /\ a.albumType = "Single"
          /\ InSuppressed(a.id)
          /\ \E t \in TrackSetOf(a.id) : t.title = <<>> /\ ~Matches(t)
          /\ \E t \in TrackSetOf(a.id) :
                /\ t.title # <<>>
                /\ Matches(t)
                /\ \A u \in WitnessTracks :
                      normalise(u.title, in_rules) # normalise(t.title, in_rules)

\* C9: once wait_for_command has read status failed for an artist, no track
\* or album listing is fetched and no album is written for it, control is in
\* the finally block or past it, and the finally block's check has run by
\* the time the loop leaves the artist (a second interrupt, which exits the
\* run on the spot, aside).
C9_CommandFailureAbortsSuppression ==
    \A i \in ArtistIds :
        note[i].commandFailed =>
            /\ CallsOf(i, {"GET /track", "PUT /album"}) = {}
            /\ (idx = i => pc \in {"finally", "loop", "done", "crashed"})
            /\ (ArtistLeft(i) /\ ~sigint.forced) => note[i].safetyChecked

\* C9 witness: the command failed, the artist was left, the safety net ran
\* and restored the artist.
C9_Witness ==
    \E i \in ArtistIds :
        /\ note[i].commandFailed
        /\ ArtistLeft(i)
        /\ note[i].safetyChecked
        /\ \E k \in DOMAIN calls[i] : calls[i][k].step = "safety"

SkippedByConfig(i) ==
    \/ (cfg.skip_unmonitored /\ ~artists[i].monitored)
    \/ CurrentProfileName(artists[i]) \in ignore_profiles

\* C10: an artist that is unmonitored under skip_unmonitored_artists, or whose
\* profile is ignored, gets no PUT and no POST, the safety net included, and
\* its remote state stays what it was.
C10_SkippedArtistsNotWritten ==
    \A i \in ArtistIds :
        SkippedByConfig(i) =>
            /\ CallsOf(i, WriteCalls) = {}
            /\ ~note[i].safetyChecked
            /\ note[i].outcome \in {"pending", "skipped"}
            /\ remoteArtist[i] = artists[i]
            /\ \A a \in AlbumIds :
                  remoteAlbumMon[i][a] =
                      (CHOOSE b \in Range(LibraryAlbums) : b.id = a).monitored

\* C10 witness: the run is over, one artist was skipped as unmonitored and
\* another, monitored and off the target profile, for its ignored profile.
C10_Witness ==
    /\ pc = "done"
    /\ \E i, j \in ArtistIds :
          /\ note[i].outcome = "skipped"
          /\ ~artists[i].monitored
          /\ CurrentProfileName(artists[i]) \notin ignore_profiles
          /\ note[j].outcome = "skipped"
          /\ artists[j].monitored
          /\ CurrentProfileName(artists[j]) \in ignore_profiles

\* the monitored flag of album a in the library listing
LibraryMonitored(a) == (CHOOSE b \in Range(LibraryAlbums) : b.id = a).monitored

\* the loop is between two artists, or over, with artist idx the last one taken
AtArtistEnd == idx \in ArtistIds /\ pc \in {"loop", "done", "crashed"}

\* C11 as stated: in a dry run nothing is written, and every artist ends with
\* the in-memory monitored flag equal to its original value (runs that a second
\* interrupt exits on the spot aside).
C11_DryRunEndsRestored ==
    (cfg.dry_run /\ ~sigint.forced) =>
        /\ \A i \in ArtistIds : CallsOf(i, WriteCalls) = {}
        /\ AtArtistEnd => artist.monitored = artists[idx].monitored

\* C11 amended: in a dry run no PUT /artist, PUT /album or POST /command is
\* sent and the remote store never changes; the in-memory snapshot is
\* unmonitored while the steps between the two toggles run, carries the target
\* profile once the profile step has run with apply_profile on, and has its
\* original monitored flag again when the sequence ends without an exception.
C11_DryRunNoRemoteMutation ==
    cfg.dry_run =>
        /\ \A i \in ArtistIds : CallsOf(i, WriteCalls) = {}
        /\ remoteArtist = artists
        /\ \A i \in ArtistIds : \A a \in AlbumIds : remoteAlbumMon[i][a] = LibraryMonitored(a)
        /\ pc # "wait"
        /\ (/\ pc \in {"profile", "refresh", "fetch", "prune", "remonitor"}
            /\ was_monitored
            /\ needs_profile_change) => ~artist.monitored
        /\ (/\ pc \in {"refresh", "fetch", "prune", "remonitor", "search"}
            /\ cfg.apply_profile) => artist.metadataProfileId = target_profile_id
        /\ (AtArtistEnd /\ ~raised) => artist.monitored = artists[idx].monitored

\* C11 witness: a dry run has taken a monitored artist off the target profile
\* through the whole sequence, two singles found suppressible: the snapshot is
\* monitored and on the target profile, the remote artist is untouched.
C11_Witness ==
    /\ cfg.dry_run
    /\ cfg.apply_profile
    /\ cfg.suppress_duplicates
    /\ cfg.search_monitored
    /\ AtArtistEnd
    /\ note[idx].outcome = "done"
    /\ artists[idx].monitored
    /\ artists[idx].metadataProfileId # target_profile_id
    /\ artist.monitored
    /\ artist.metadataProfileId = target_profile_id
    /\ remoteArtist[idx] = artists[idx]
    /\ Len(suppressed) = 2

ArtistPuts(i) == CallsOf(i, {"PUT /artist"})

\* C15: an artist that was unmonitored when the run started is unmonitored on
\* the remote store in every state, and every PUT /artist sent for it, whatever
\* its step and outcome, carries monitored = false.
C15_UnmonitoredNeverSwitchedOn ==
    \A i \in ArtistIds :
        ~artists[i].monitored =>
            /\ ~remoteArtist[i].monitored
            /\ \A k \in ArtistPuts(i) : ~calls[i][k].body.monitored

\* C15 witness: two unmonitored artists off the target profile; the profile
\* PUT of the first succeeded, that of the second failed after reaching the
\* store, the finally block ran for both, and both are still unmonitored.
C15_Witness ==
    /\ idx = 2
    /\ pc = "crashed"
    /\ \A i \in {1, 2} :
          /\ ~artists[i].monitored
          /\ ~remoteArtist[i].monitored
          /\ remoteArtist[i].metadataProfileId = target_profile_id
          /\ note[i].safetyChecked
    /\ \E k \in ArtistPuts(1) : calls[1][k].step = "profile" /\ calls[1][k].outcome = "ok"
    /\ \E k \in ArtistPuts(2) : calls[2][k].step = "profile" /\ calls[2][k].outcome = "lost"

\* C19: an artist on the target profile when the run starts gets no PUT
\* /artist and no POST /command; its remote artist object never changes, and
\* the only writes logged for it are PUT /album with monitored = false.
C19_OnTargetArtistNotWritten ==
    \A i \in ArtistIds :
        artists[i].metadataProfileId = target_profile_id =>
            /\ CallsOf(i, {"PUT /artist", "POST /command"}) = {}
            /\ remoteArtist[i] = artists[i]
            /\ \A k \in CallsOf(i, WriteCalls) :
                  calls[i][k].call = "PUT /album" /\ ~calls[i][k].body.monitored

\* C19 witness: a monitored artist on the target profile went through the
\* sequence with every flag on but dry_run; both suppressible singles were
\* written and nothing else was.
C19_Witness ==
    \E i \in ArtistIds :
        /\ artists[i].metadataProfileId = target_profile_id
        /\ artists[i].monitored
        /\ cfg.apply_profile /\ cfg.suppress_duplicates /\ cfg.search_monitored
        /\ ~cfg.dry_run
        /\ ArtistLeft(i)
        /\ note[i].outcome = "done"
        /\ note[i].safetyChecked
        /\ Cardinality(CallsOf(i, {"PUT /album"})) = 2
        /\ Cardinality(CallsOf(i, WriteCalls)) = 2

\* album a of the library listing
LibraryAlbum(a) == CHOOSE b \in Range(LibraryAlbums) : b.id = a

\* the singles of the library listing that the prune finds suppressible
LibrarySuppressed == Range(SuppressedIds(LibraryAlbums, LibraryTracks, normalisation))

\* C20: every PUT /album names a Single of the suppressed set and carries
\* monitored = false; none is sent when suppress_duplicates is off or dry_run
\* is on; an album whose remote flag differs from the listing is a suppressed
\* Single, now unmonitored.
C20_OnlySuppressedSinglesWritten ==
    \A i \in ArtistIds :
        /\ \A k \in CallsOf(i, {"PUT /album"}) :
              /\ calls[i][k].step = "prune"
              /\ calls[i][k].body.id \in LibrarySuppressed
              /\ LibraryAlbum(calls[i][k].body.id).albumType = "Single"
              /\ ~calls[i][k].body.monitored
        /\ (~cfg.suppress_duplicates \/ cfg.dry_run) => CallsOf(i, {"PUT /album"}) = {}
        /\ \A a \in AlbumIds :
              remoteAlbumMon[i][a] # LibraryMonitored(a) =>
                  /\ a \in LibrarySuppressed
                  /\ LibraryAlbum(a).albumType = "Single"
                  /\ ~remoteAlbumMon[i][a]

\* C20 witness: the prune of an artist has ended with both suppressible singles
\* written and unmonitored, the kept single and the album still monitored.
C20_Witness ==
    \E i \in ArtistIds :
        /\ ArtistLeft(i)
        /\ note[i].outcome = "done"
        /\ {calls[i][k].body.id : k \in CallsOf(i, {"PUT /album"})} = {"s1", "s3"}
        /\ ~remoteAlbumMon[i]["s1"]
        /\ ~remoteAlbumMon[i]["s3"]
        /\ remoteAlbumMon[i]["s2"]
        /\ remoteAlbumMon[i]["lp"]
        /\ ~remoteAlbumMon[i]["ep"]

\* the step is the finally block sending a restoring PUT that fails
SafetyPutFails ==
    /\ pc = "finally"
    /\ Len(calls'[idx]) = Len(calls[idx]) + 1
    /\ calls'[idx][Len(calls'[idx])].step = "safety"
    /\ calls'[idx][Len(calls'[idx])].outcome # "ok"

\* C17: a step in which the safety net's PUT fails leaves the exception in
\* flight as it was: none appears where there was none, the step recorded as
\* the one that failed stays the same, and control goes where it would have
\* gone without the failure.
C17_SafetyNetFailureNotEscalated ==
    [][SafetyPutFails =>
          /\ raised' = raised
          /\ note'[idx].failedAt = note[idx].failedAt
          /\ note'[idx].safetyFailed
          /\ pc' = AfterFinally]_vars

\* C17 witness: the profile PUT of a monitored artist failed, the restoring PUT
\* was rejected too, and the run ended on the profile step's error.
C17_Witness ==
    /\ idx \in ArtistIds
    /\ pc = "crashed"
    /\ raised
    /\ ~sigint.forced
    /\ note[idx].safetyFailed
    /\ note[idx].failedAt = "profile"
    /\ calls[idx] # <<>>
    /\ calls[idx][Len(calls[idx])].step = "safety"
    /\ calls[idx][Len(calls[idx])].outcome = "rejected"
    /\ ~remoteArtist[idx].monitored

\* the restoring PUT is sent only while an exception is in flight
C17_SafetyPutOnlyAfterRaise ==
    \A i \in ArtistIds :
        (\E k \in DOMAIN calls[i] : calls[i][k].step = "safety") => note[i].failedAt # "none"

\* call k of artist i was made at one of `steps`
StepIn(i, k, steps) == calls[i][k].step \in steps

\* a call before k of artist i made at `step` came back
OkBefore(i, k, step) ==
    \E j \in 1..(k - 1) : calls[i][j].step = step /\ calls[i][j].outcome = "ok"

\* ids of the singles written before call k of artist i
WrittenBefore(i, k) ==
    {calls[i][j].body.id : j \in {n \in 1..(k - 1) : calls[i][n].step = "prune"
                                                    /\ calls[i][n].outcome = "ok"}}

\* C16: in the call log of a monitored artist off the target profile (dry_run
\* off), the unmonitor PUT comes first; a profile PUT or refresh POST follows
\* an unmonitor PUT that came back; a listing or an album write follows a poll
\* that read completed; the re-monitor PUT follows the listing and, with
\* suppress_duplicates on, the writes of all suppressible singles, the loop
\* over the singles being over; a search POST directly follows a re-monitor PUT
\* that came back, and only with search_monitored on.
C16_StepOrdering ==
    \A i \in ArtistIds :
        (artists[i].monitored /\ artists[i].metadataProfileId # target_profile_id
                              /\ ~cfg.dry_run) =>
        \A k \in DOMAIN calls[i] :
            /\ StepIn(i, k, {"unmonitor"}) => k = 1
            /\ StepIn(i, k, {"profile", "refresh"}) => OkBefore(i, k, "unmonitor")
            /\ StepIn(i, k, {"fetch", "prune"}) =>
                  \E j \in 1..(k - 1) :
                      /\ calls[i][j].call = "GET /command"
                      /\ calls[i][j].outcome = "ok"
                      /\ calls[i][j].body.status = "completed"
            /\ StepIn(i, k, {"remonitor"}) =>
                  /\ OkBefore(i, k, "fetch")
                  /\ cfg.suppress_duplicates => WrittenBefore(i, k) = LibrarySuppressed
                  /\ i = idx => (sPos > Len(singles)
                                 /\ Len(suppressed) + Len(kept) = Len(singles))
            /\ StepIn(i, k, {"search"}) =>
                  /\ cfg.search_monitored
                  /\ k > 1
                  /\ calls[i][k - 1].step = "remonitor"
                  /\ calls[i][k - 1].outcome = "ok"

\* C16 witness: a monitored artist off the target profile went through every
\* step with every flag on but dry_run.
C16_Witness ==
    \E i \in ArtistIds :
        /\ artists[i].monitored
        /\ artists[i].metadataProfileId # target_profile_id
        /\ ~cfg.dry_run
        /\ ArtistLeft(i)
        /\ note[i].outcome = "done"
        /\ [k \in DOMAIN calls[i] |-> calls[i][k].step] =
              <<"unmonitor", "profile", "refresh", "wait", "fetch", "prune", "prune",
                "remonitor", "search">>

\* the loop over the artists has stopped
LoopStopped == pc \in {"done", "crashed"}

\* C13 as stated: no artist's sequence is ever cut short by an interrupt, and
\* once the loop has stopped after an interrupt that arrived while an artist
\* was being reconciled, that artist's finally block has run and no later
\* artist was started.
C13_NeverMidArtist ==
    /\ \A i \in ArtistIds : note[i].failedAt # "interrupt"
    /\ (sigint.mid /\ LoopStopped) =>
          /\ idx = sigint.at
          /\ note[idx].safetyChecked

\* C13 amended: the first interrupt only sets the flag; if it arrived while an
\* artist was being reconciled no later artist is ever started, and unless a
\* second interrupt follows no sequence is cut short by an interrupt and that
\* artist's finally block has run when the loop stops. A second interrupt
\* raises at once: raised inside the try block it cuts the sequence short and
\* the finally block still runs before the run ends; raised inside the finally
\* block or between two artists it ends the run on the spot.
C13_CooperativeUntilSecondInterrupt ==
    /\ sigint.mid => idx = sigint.at
    /\ ~sigint.forced =>
          /\ \A i \in ArtistIds : note[i].failedAt # "interrupt"
          /\ (sigint.mid /\ LoopStopped) =>
                /\ note[idx].safetyChecked
                /\ note[idx].outcome \in {"done", "failed"}
    /\ sigint.forced =>
          /\ shutdown_requested
          /\ pc \in {"finally", "crashed"}
          /\ raised
          /\ (sigint.where = "try" /\ pc = "crashed") => note[idx].safetyChecked
          /\ (sigint.where = "finally" /\ ~note[idx].safetyChecked) => pc = "crashed"

\* C13 witness: an interrupt arrived while artist 1 was being reconciled, the
\* artist went on to the end of its sequence and its finally block, and the
\* loop stopped without starting artist 2.
C13_Witness ==
    /\ sigint.mid
    /\ ~sigint.forced
    /\ sigint.at = 1
    /\ pc = "done"
    /\ idx = 1
    /\ note[1].outcome = "done"
    /\ note[1].safetyChecked
    /\ \E k \in DOMAIN calls[1] : calls[1][k].step = "remonitor"
    /\ note[2].outcome = "pending"

\* a second interrupt inside the finally block ended the run before the check
C13_ForcedWitness ==
    /\ sigint.forced
    /\ sigint.where = "finally"
    /\ pc = "crashed"
    /\ ~note[idx].safetyChecked
    /\ artists[idx].monitored
    /\ ~remoteArtist[idx].monitored

\* the step ends the wait for the command
WaitEnds == pc = "wait" /\ pc' # "wait"

\* the call logged by the step: the poll that ended the wait
LastPoll == calls'[idx][Len(calls'[idx])]

\* the step ends the wait on a poll that read `status`
EndsOnStatus(status) ==
    /\ Len(calls'[idx]) = Len(calls[idx]) + 1
    /\ LastPoll.call = "GET /command"
    /\ LastPoll.outcome = "ok"
    /\ LastPoll.body.status = status
    /\ cmdStatus = status

\* C14 as stated: the wait returns only on status completed and fails only on
\* status failed (a second interrupt, which is no outcome of the wait, aside).
C14_OutcomeOnlyFromStatus ==
    [][(WaitEnds /\ sigint' = sigint) =>
          \/ (pc' = "fetch" /\ ~raised' /\ EndsOnStatus("completed"))
          \/ (pc' = "finally" /\ raised' /\ EndsOnStatus("failed"))]_vars

\* the wait returns only on a poll that read completed; it fails on a poll
\* that read failed, on a poll whose GET itself failed, or on a second
\* interrupt; a poll that reads another status never ends it
C14_WaitEndsSafely ==
    [][WaitEnds =>
          \/ (pc' = "fetch" /\ ~raised' /\ EndsOnStatus("completed"))
          \/ (/\ pc' = "finally" /\ raised' /\ EndsOnStatus("failed")
              /\ note'[idx].failedAt = "wait" /\ note'[idx].commandFailed)
          \/ (/\ pc' = "finally" /\ raised'
              /\ Len(calls'[idx]) = Len(calls[idx]) + 1
              /\ LastPoll.call = "GET /command"
              /\ LastPoll.outcome = "rejected"
              /\ note'[idx].failedAt = "wait" /\ ~note'[idx].commandFailed)
          \/ (/\ pc' = "finally" /\ raised'
              /\ sigint'.forced /\ ~sigint.forced
              /\ calls' = calls)]_vars

\* once the command is completed or failed, the wait ends
C14_WaitTerminates ==
    (pc = "wait" /\ cmdStatus \in TerminalStatuses) ~> (pc # "wait")

\* C14 amended: the wait returns only after a poll that read completed, fails
\* after a poll that read failed or whose GET itself failed (or on a second
\* interrupt), and goes on polling on every other status; once the command is
\* completed or failed the wait ends.
C14_WaiterOutcome == C14_WaitEndsSafely /\ C14_WaitTerminates

\* C14 witness: the command went from queued through started to completed while
\* the waiter polled, and the wait returned on the poll that read completed.
C14_Witness ==
    /\ idx \in ArtistIds
    /\ pc = "fetch"
    /\ ~raised
    /\ calls[idx] # <<>>
    /\ calls[idx][Len(calls[idx])] = [call |-> "GET /command", step |-> "wait",
                                      body |-> [status |-> "completed"], outcome |-> "ok"]
    /\ cmdStatus = "none"

\* C12: the second pass, run on the listing in which the singles suppressed by
\* the first pass are unmonitored and nothing else differs, suppresses exactly
\* the singles the first pass suppressed, in the same order, and keeps the same.
C12_SuppressorIdempotent ==
    sphase = "repruned" =>
        /\ in_albums = AfterSuppression(first_pass.albums, first_pass.suppressed)
        /\ out_suppressed = first_pass.suppressed
        /\ Range(out_suppressed) \cap Range(out_kept) = {}
        /\ Range(out_suppressed) \cup Range(out_kept) =
              {a.id : a \in Range(SinglesOf(in_albums))}

\* C12 witness: the first pass suppressed a monitored single, the second pass
\* ran on the listing with that single unmonitored and suppressed it again.
C12_Witness ==
    /\ sphase = "repruned"
    /\ first_pass.suppressed = <<"a2">>
    /\ first_pass.albums[2].monitored
    /\ ~in_albums[2].monitored
    /\ in_albums[1] = first_pass.albums[1]
    /\ out_suppressed = <<"a2">>

\* the removal rule as the claim words it: a character stays iff it is
\* alphanumeric or white space
KeptAsStated(c) ==
    \/ c \in Range(LowerChars)
    \/ c \in Range(UpperChars)
    \/ c \in DigitChars
    \/ c \in SpaceChars

\* the seven steps in the claim's order, with the removal rule as worded
StatedNormalise(title, rules) ==
    LET s1 == IF rules.lowercase THEN Lower(title) ELSE title
        s2 == ReplaceAmp(s1)
        s3 == IF rules.strip_parentheses THEN StripGroups(s2, "(", ")") ELSE s2
        s4 == IF rules.strip_brackets THEN StripGroups(s3, "[", "]") ELSE s3
        s5 == IF rules.remove_punctuation THEN SelectSeq(s4, KeptAsStated) ELSE s4
        s6 == IF rules.collapse_whitespace THEN CollapseWhitespace(s5) ELSE s5
    IN Strip(s6)

\* C18 as stated: for every title and every setting of the five flags,
\* normalise returns what the seven steps in the stated order return, the
\* removal step keeping every alphanumeric and every white-space character.
C18_NormaliseAsStated ==
    nphase = "done" => n_out = StatedNormalise(n_title, n_rules)

\* the part of C18 that holds: with remove_punctuation off, or lowercase on,
\* the result is that of the stated steps, and "A & B (Remix) [Live]" under
\* the rules of the claim's example gives "a and b"
C18_NormaliseWhenLowercased ==
    nphase = "done" =>
        /\ (~n_rules.remove_punctuation \/ n_rules.lowercase) =>
              n_out = StatedNormalise(n_title, n_rules)
        /\ (n_title = RemixTitle /\ n_rules = normalisation) =>
              n_out = <<"a", " ", "a", "n", "d", " ", "b">>

\* the example of C18 has been normalised
C18_ExampleReached ==
    /\ nphase = "done"
    /\ n_title = RemixTitle
    /\ n_rules = normalisation
    /\ n_out = <<"a", " ", "a", "n", "d", " ", "b">>

====
